---------------------------- MODULE Spec2Model ----------------------------
(***************************************************************************)
(* Model of src/mreleaser/__init__.py: the value parser parse_str, the     *)
(* integer override Env.as_int, the construction of an Env snapshot from   *)
(* the process environment, the command runners cmd and aiocmd with their  *)
(* CmdError, and the --version command.                                    *)
(*                                                                         *)
(* A Python str is a sequence of characters; a character is a one-element  *)
(* token such as "a" or "/".  Two non-ASCII characters are named by their  *)
(* code point: "U+00B2" (SUPERSCRIPT TWO: numeric, not a decimal digit)    *)
(* and "U+0663" (ARABIC-INDIC DIGIT THREE: a decimal digit of value 3).    *)
(***************************************************************************)
EXTENDS Integers, Sequences, FiniteSets, TLC

VARIABLES
    pc,          \* position of the call: "start", "getattribute", "done"
    arg_data,    \* argument of parse_str / value argument of Env.as_int
    arg_key,     \* key argument of Env.as_int
    result,      \* value returned (or exception raised) by the call
    environ,     \* os.environ: variable name -> raw string
    captured,    \* os.environ as it was when Env(...) was called
    parsed,      \* the InitVar `parsed` of Env
    fields,      \* instance attributes set by the dataclass __init__
    depth,       \* nested Env.__getattribute__ frames on the interpreter stack
    mutations,   \* environment changes made after the call Env(...)
    live,        \* the latest call parse_env(name): its name and its value
    run,         \* the running call of cmd / aiocmd
    child,       \* the child process and its two pipes
    other_steps, \* steps other tasks of the event loop took during the call
    cli          \* the command-line invocation: registry, stdout, exit code

vars == <<pc, arg_data, arg_key, result, environ, captured, parsed, fields, depth,
          mutations, live, run, child, other_steps, cli>>

---------------------------------------------------------------------------
(* Bounds of the model *)

\* longest enumerated input string of parse_str
MaxLen == 3
\* longest enumerated value string of Env.as_int
MaxValLen == 2
\* interpreter recursion limit (sys.getrecursionlimit()), scaled down
RecursionLimit == 4
\* environment changes after the constructor call
MaxMutations == 2
\* most bytes the child writes to one stream
MaxOut == 2
\* steps of other tasks while a command runs
MaxOtherSteps == 1

---------------------------------------------------------------------------
(* Python values *)

None == [tag |-> "None"]
PyStr(s) == [tag |-> "String", s |-> s]
PyBool(b) == [tag |-> "Boolean", b |-> b]
PyInt(n) == [tag |-> "Integer", n |-> n]
Raise(exc) == [tag |-> "Raise", exc |-> exc]

IsRaise(v) == v.tag = "Raise"

---------------------------------------------------------------------------
(* str primitives *)

UpperCase == <<"A","B","C","D","E","F","G","H","I","J","K","L","M",
               "N","O","P","Q","R","S","T","U","V","W","X","Y","Z">>
LowerCase == <<"a","b","c","d","e","f","g","h","i","j","k","l","m",
               "n","o","p","q","r","s","t","u","v","w","x","y","z">>
Digits == <<"0","1","2","3","4","5","6","7","8","9">>

Range(f) == {f[i] : i \in DOMAIN f}

IsAsciiDigit(c) == c \in Range(Digits)
IsAsciiAlpha(c) == c \in Range(UpperCase) \cup Range(LowerCase)

\* str.lower() on one character
lowerChar(c) ==
    IF c \in Range(UpperCase)
    THEN LowerCase[CHOOSE i \in DOMAIN UpperCase : UpperCase[i] = c]
    ELSE c

\* a comparison that forgets to fold case: the string is used as written
lower_forgotten(s) == s

\* str.lower()
lower(s) == [i \in 1..Len(s) |-> lowerChar(s[i])]

\* `sub in s`
Contains(s, sub) ==
    \E i \in 1..(Len(s) - Len(sub) + 1) : SubSeq(s, i, i + Len(sub) - 1) = sub

\* s.find(c) for a one-character c, 1-based; 0 when absent
Find(s, c) ==
    IF \E i \in 1..Len(s) : s[i] = c
    THEN CHOOSE i \in 1..Len(s) : s[i] = c /\ \A j \in 1..(i - 1) : s[j] # c
    ELSE 0

\* s.startswith(p), s.endswith(p)
startswith(s, p) == Len(p) <= Len(s) /\ SubSeq(s, 1, Len(p)) = p
endswith(s, p) == Len(p) <= Len(s) /\ SubSeq(s, Len(s) - Len(p) + 1, Len(s)) = p

\* s.split(c) for a one-character separator
RECURSIVE split(_, _)
split(s, c) ==
    LET i == Find(s, c) IN
    IF i = 0 THEN <<s>>
    ELSE <<SubSeq(s, 1, i - 1)>> \o split(SubSeq(s, i + 1, Len(s)), c)

\* Unicode decimal digits (category Nd) and their values
IsDecimal(c) == IsAsciiDigit(c) \/ c = "U+0663"
DecimalValue(c) ==
    IF c = "U+0663" THEN 3
    ELSE (CHOOSE i \in DOMAIN Digits : Digits[i] = c) - 1

\* characters with a Unicode numeric value
IsNumericChar(c) == IsDecimal(c) \/ c = "U+00B2"

\* str.isnumeric(): non-empty and every character numeric
isnumeric(s) == Len(s) > 0 /\ \A i \in 1..Len(s) : IsNumericChar(s[i])

\* int(s) on a string of numeric characters: base 10 over decimal digits,
\* ValueError for any other numeric character
RECURSIVE DecimalNumber(_)
DecimalNumber(s) ==
    IF Len(s) = 0 THEN 0
    ELSE 10 * DecimalNumber(SubSeq(s, 1, Len(s) - 1)) + DecimalValue(s[Len(s)])

int(s) ==
    IF Len(s) > 0 /\ \A i \in 1..Len(s) : IsDecimal(s[i])
    THEN PyInt(DecimalNumber(s))
    ELSE Raise("ValueError")

---------------------------------------------------------------------------
(* Path(data): a pure POSIX path keeps its root and its components; empty  *)
(* and "." components and a trailing "/" are dropped, and exactly two      *)
(* leading slashes are kept as the root "//".                              *)

PathRoot(s) ==
    IF ~startswith(s, <<"/">>) THEN <<>>
    ELSE IF startswith(s, <<"/", "/">>) /\ ~startswith(s, <<"/", "/", "/">>)
         THEN <<"/", "/">>
         ELSE <<"/">>

PathParts(s) ==
    SelectSeq(split(s, "/"), LAMBDA part : part # <<>> /\ part # <<".">>)

Path(s) == [tag |-> "Path", root |-> PathRoot(s), parts |-> PathParts(s)]

---------------------------------------------------------------------------
(* ipaddress.ip_address(data): strict IPv4 dotted quad, else IPv6          *)

IsHexChar(c) ==
    IsAsciiDigit(c) \/ c \in {"a","b","c","d","e","f","A","B","C","D","E","F"}

HexCharValue(c) ==
    IF IsAsciiDigit(c) THEN DecimalValue(c)
    ELSE 9 + (CHOOSE i \in 1..6 : LowerCase[i] = lowerChar(c))

RECURSIVE HexNumber(_)
HexNumber(s) ==
    IF Len(s) = 0 THEN 0
    ELSE 16 * HexNumber(SubSeq(s, 1, Len(s) - 1)) + HexCharValue(s[Len(s)])

\* IPv4Address._parse_octet: ASCII digits, at most 3, no leading zero, <= 255
OctetOk(o) ==
    /\ Len(o) \in 1..3
    /\ \A i \in 1..Len(o) : IsAsciiDigit(o[i])
    /\ (o = <<"0">> \/ o[1] # "0")
    /\ DecimalNumber(o) <= 255

IPv4Address(s) ==
    LET octets == split(s, ".") IN
    IF Contains(s, <<"/">>) \/ Len(s) = 0 \/ Len(octets) # 4
       \/ \E i \in 1..Len(octets) : ~OctetOk(octets[i])
    THEN Raise("AddressValueError")
    ELSE [tag |-> "IPAddress", version |-> 4,
          ip |-> [i \in 1..4 |-> DecimalNumber(octets[i])]]

\* one group of an IPv6 address: empty (next to "::"), or a hextet
Hextet(p) ==
    [empty |-> Len(p) = 0,
     ok |-> Len(p) \in 1..4 /\ \A i \in 1..Len(p) : IsHexChar(p[i]),
     val |-> IF \A i \in 1..Len(p) : IsHexChar(p[i]) THEN HexNumber(p) ELSE 0]

Zeros(n) == [i \in 1..n |-> 0]

\* IPv6Address._ip_int_from_string on the groups (an embedded IPv4 tail is
\* already replaced by its two hextets)
IPv6FromGroups(g, scope) ==
    LET n == Len(g)
        inner == {i \in 2..(n - 1) : g[i].empty}
    IN
    IF n < 3 \/ n > 9 \/ Cardinality(inner) > 1 THEN Raise("AddressValueError")
    ELSE IF inner # {} THEN
        LET skip == CHOOSE i \in inner : TRUE
            hi == IF g[1].empty THEN skip - 2 ELSE skip - 1
            lo == IF g[n].empty THEN n - skip - 1 ELSE n - skip
        IN
        IF (g[1].empty /\ hi # 0) \/ (g[n].empty /\ lo # 0) \/ 8 - (hi + lo) < 1
           \/ (\E i \in 1..hi : ~g[i].ok)
           \/ (\E i \in (n - lo + 1)..n : ~g[i].ok)
        THEN Raise("AddressValueError")
        ELSE [tag |-> "IPAddress", version |-> 6, scope |-> scope,
              ip |-> [i \in 1..hi |-> g[i].val]
                     \o Zeros(8 - (hi + lo))
                     \o [i \in 1..lo |-> g[n - lo + i].val]]
    ELSE
        IF n # 8 \/ \E i \in 1..n : ~g[i].ok
        THEN Raise("AddressValueError")
        ELSE [tag |-> "IPAddress", version |-> 6, scope |-> scope,
              ip |-> [i \in 1..8 |-> g[i].val]]

IPv6Address(s) ==
    LET pct == Find(s, "%")
        addr == IF pct = 0 THEN s ELSE SubSeq(s, 1, pct - 1)
        scope == IF pct = 0 THEN <<>> ELSE SubSeq(s, pct + 1, Len(s))
        parts == split(addr, ":")
        last == parts[Len(parts)]
        tail == IPv4Address(last)
    IN
    IF Contains(s, <<"/">>) THEN Raise("AddressValueError")
    ELSE IF pct # 0 /\ (Len(scope) = 0 \/ Contains(scope, <<"%">>))
    THEN Raise("AddressValueError")
    ELSE IF Len(addr) = 0 \/ Len(parts) < 3 THEN Raise("AddressValueError")
    ELSE IF Contains(last, <<".">>) THEN
        IF IsRaise(tail) THEN Raise("AddressValueError")
        ELSE IPv6FromGroups(
                 [i \in 1..(Len(parts) - 1) |-> Hextet(parts[i])]
                 \o << [empty |-> FALSE, ok |-> TRUE,
                        val |-> 256 * tail.ip[1] + tail.ip[2]],
                       [empty |-> FALSE, ok |-> TRUE,
                        val |-> 256 * tail.ip[3] + tail.ip[4]] >>,
                 scope)
    ELSE IPv6FromGroups([i \in 1..Len(parts) |-> Hextet(parts[i])], scope)

\* ip_address accepts an integer as a packed IPv4 address; this variant
\* converts an all-digit string to that integer before the call
ip_address_of_number(s) ==
    IF Len(s) > 0 /\ \A i \in 1..Len(s) : IsAsciiDigit(s[i])
    THEN [tag |-> "IPAddress", version |-> 4,
          ip |-> [i \in 1..4 |-> (DecimalNumber(s) \div (256 ^ (4 - i))) % 256]]
    ELSE IF ~IsRaise(IPv4Address(s)) THEN IPv4Address(s)
    ELSE IF ~IsRaise(IPv6Address(s)) THEN IPv6Address(s)
    ELSE Raise("ValueError")

ip_address(s) ==
    IF ~IsRaise(IPv4Address(s)) THEN IPv4Address(s)
    ELSE IF ~IsRaise(IPv6Address(s)) THEN IPv6Address(s)
    ELSE Raise("ValueError")

---------------------------------------------------------------------------
(* urllib.parse.urlparse(data): scheme, netloc, path, query, fragment.     *)
(* The params field (after ";") is not separated from the path.            *)

IsSchemeChar(c) == IsAsciiAlpha(c) \/ IsAsciiDigit(c) \/ c \in {"+", "-", "."}

\* index of the first character of s that is in `chars`, Len(s) + 1 if none
FirstOf(s, chars) ==
    IF \E i \in 1..Len(s) : s[i] \in chars
    THEN CHOOSE i \in 1..Len(s) :
             s[i] \in chars /\ \A j \in 1..(i - 1) : s[j] \notin chars
    ELSE Len(s) + 1

urlparse(url) ==
    LET colon == Find(url, ":")
        hasScheme == /\ colon > 1
                     /\ IsAsciiAlpha(url[1])
                     /\ \A i \in 1..(colon - 1) : IsSchemeChar(url[i])
        scheme == IF hasScheme THEN lower(SubSeq(url, 1, colon - 1)) ELSE <<>>
        rest == IF hasScheme THEN SubSeq(url, colon + 1, Len(url)) ELSE url
        hasNetloc == startswith(rest, <<"/", "/">>)
        afterSlashes == SubSeq(rest, 3, Len(rest))
        delim == FirstOf(afterSlashes, {"/", "?", "#"})
        netloc == IF hasNetloc THEN SubSeq(afterSlashes, 1, delim - 1) ELSE <<>>
        tail == IF hasNetloc THEN SubSeq(afterSlashes, delim, Len(afterSlashes))
                ELSE rest
        hash == Find(tail, "#")
        fragment == IF hash = 0 THEN <<>> ELSE SubSeq(tail, hash + 1, Len(tail))
        noFragment == IF hash = 0 THEN tail ELSE SubSeq(tail, 1, hash - 1)
        mark == Find(noFragment, "?")
        query == IF mark = 0 THEN <<>>
                 ELSE SubSeq(noFragment, mark + 1, Len(noFragment))
        path == IF mark = 0 THEN noFragment ELSE SubSeq(noFragment, 1, mark - 1)
    IN
    IF Contains(netloc, <<"[">>) # Contains(netloc, <<"]">>)
    THEN Raise("ValueError")
    ELSE [tag |-> "URL", scheme |-> scheme, netloc |-> netloc, path |-> path,
          query |-> query, fragment |-> fragment]

---------------------------------------------------------------------------
(* parse_str(data) *)

parse_str(data) ==
    IF data = None THEN data
    ELSE LET s == data.s IN
        IF lower(s) \in {<<"1">>, <<"t","r","u","e">>, <<"y","e","s">>, <<"o","n">>}
        THEN PyBool(TRUE)
        ELSE IF lower(s) \in {<<"0">>, <<"f","a","l","s","e">>, <<"n","o">>,
                              <<"o","f","f">>}
        THEN PyBool(FALSE)
        ELSE IF Contains(s, <<":", "/", "/">>) \/ Contains(s, <<"@">>)
        THEN urlparse(s)
        ELSE IF Len(s) = 0
        THEN Raise("IndexError")
        ELSE IF \/ (<<s[1]>> \in {<<"/">>, <<"~">>, <<".", "/">>}
                    /\ ~Contains(s, <<":">>))
                \/ s = <<".">>
        THEN Path(s)
        ELSE IF ~IsRaise(ip_address(s))
        THEN ip_address(s)
        ELSE IF isnumeric(s)
        THEN int(s)
        ELSE data

---------------------------------------------------------------------------
(* Inputs *)

Alphabet == {"0", "1", "2", ".", "/", "~", ":", "@", "[", "n", "O",
             "U+00B2", "U+0663"}

Strings(n) == UNION {[1..k -> Alphabet] : k \in 0..n}

upperChar(c) ==
    IF c \in Range(LowerCase)
    THEN UpperCase[CHOOSE i \in DOMAIN LowerCase : LowerCase[i] = c]
    ELSE c

\* every upper/lower-case spelling of a word
Spellings(w) ==
    {[i \in 1..Len(w) |-> IF m[i] THEN upperChar(w[i]) ELSE w[i]] :
        m \in [1..Len(w) -> BOOLEAN]}

TrueWords == {<<"1">>, <<"t","r","u","e">>, <<"y","e","s">>, <<"o","n">>}
FalseWords == {<<"0">>, <<"f","a","l","s","e">>, <<"n","o">>, <<"o","f","f">>}

BoolSpellings == UNION {Spellings(w) : w \in TrueWords \cup FalseWords}

\* the inputs of the doctests, and neighbours of them
DocStrings == {
    <<"h","t","t","p","s",":","/","/","g","i","t","h","u","b",".","c","o","m">>,
    <<"g","i","t","@","g","i","t","h","u","b",".","c","o","m">>,
    <<"~","/","f","o","o">>,
    <<"/","f","o","o">>,
    <<".","/","f","o","o">>,
    <<".","/","1","2","3">>,
    <<"0",".","0",".","0",".","0">>,
    <<"1","9","2",".","1","6","8",".","0",".","1">>,
    <<"2","5","6",".","0",".","0",".","1">>,
    <<"0","1",".","0",".","0",".","1">>,
    <<":",":","1">>,
    <<":",":","f","f","f","f",":","1",".","2",".","3",".","4">>,
    <<"1",":","2",":","3",":","4",":","5",":","6",":","7",":","8">>,
    <<"f","e","8","0",":",":","1","%","e","t","h","0">>,
    <<"2",".","0">>,
    <<"1","2","3","4">>,
    <<"/","u","s","r","/","s","h","a","r","e","/","m","a","n",":">>,
    <<"x",":","/","/","[">>,
    <<"t","r","u","e","s">>,
    <<"y","e","s","/">>,
    <<"f","o","o">> }

Inputs == {None} \cup {PyStr(s) : s \in Strings(MaxLen) \cup BoolSpellings \cup DocStrings}

---------------------------------------------------------------------------
(* Specification of a call parse_str(data) *)

\* no command is run and nothing is printed
NoRun ==
    /\ live = None
    /\ run = <<>>
    /\ child = <<>>
    /\ other_steps = 0
    /\ cli = <<>>

NoEnv ==
    /\ environ = <<>>
    /\ captured = <<>>
    /\ parsed = TRUE
    /\ fields = <<>>
    /\ depth = 0
    /\ mutations = 0

InitParse ==
    /\ pc = "start"
    /\ arg_data \in Inputs
    /\ arg_key = <<>>
    /\ result = None
    /\ NoEnv
    /\ NoRun

ParseStr ==
    /\ pc = "start"
    /\ result' = parse_str(arg_data)
    /\ pc' = "done"
    /\ UNCHANGED <<arg_data, arg_key, environ, captured, parsed, fields, depth, mutations>>
    /\ UNCHANGED <<live, run, child, other_steps, cli>>

NextParse == ParseStr

SpecParse == InitParse /\ [][NextParse]_vars

---------------------------------------------------------------------------
(* Properties of parse_str, checked under SpecParse *)

Returned == pc = "done"

\* s spells the lower-case word w, ignoring letter case
SameIgnoringCase(s, w) ==
    /\ Len(s) = Len(w)
    /\ \A i \in 1..Len(s) : s[i] = w[i] \/ s[i] = upperChar(w[i])

IsBooleanLiteral(s) == \E w \in TrueWords \cup FalseWords : SameIgnoringCase(s, w)

IsAsciiDigits(s) == Len(s) > 0 /\ \A i \in 1..Len(s) : IsAsciiDigit(s[i])

\* base-10 value of a string of ASCII digits, most significant digit first
Base10(s) ==
    LET digit(i) == CHOOSE d \in 0..9 : Digits[d + 1] = s[i]
        RECURSIVE sum(_)
        sum(i) == IF i > Len(s) THEN 0
                  ELSE digit(i) * 10 ^ (Len(s) - i) + sum(i + 1)
    IN sum(1)

\* C1: parse_str is total: every call returns exactly one of Boolean,
\* Integer, IPAddress, URL, Path, String or None, and never raises.
C1_Total ==
    Returned =>
        result.tag \in {"Boolean", "Integer", "IPAddress", "URL", "Path",
                        "String", "None"}

\* C2: parse_str of None or of the empty string returns None.
C2_AbsentOrEmptyIsNone ==
    (Returned /\ arg_data \in {None, PyStr(<<>>)}) => result = None

\* C3: a string that spells "1", "true", "yes" or "on" in any letter case
\* parses as Boolean true; one that spells "0", "false", "no" or "off"
\* parses as Boolean false.
C3_BooleanLiterals ==
    (Returned /\ arg_data # None) =>
        /\ (\E w \in TrueWords : SameIgnoringCase(arg_data.s, w))
               => result = PyBool(TRUE)
        /\ (\E w \in FalseWords : SameIgnoringCase(arg_data.s, w))
               => result = PyBool(FALSE)

C3_Witness ==
    /\ Returned
    /\ arg_data = PyStr(<<"f","A","l","S","e">>)
    /\ result = PyBool(FALSE)

\* C4 as claimed: every non-empty string of ASCII digits parses as the
\* Integer of its base-10 value.
C4_AllDigitStringsInteger ==
    (Returned /\ arg_data # None /\ IsAsciiDigits(arg_data.s)) =>
        result = PyInt(Base10(arg_data.s))

\* C4: every non-empty string of ASCII digits other than "0" and "1" parses
\* as the Integer of its base-10 value; "1" and "0" parse as Boolean true
\* and false.
C4_DigitStringsButBooleans ==
    (Returned /\ arg_data # None /\ IsAsciiDigits(arg_data.s)) =>
        IF arg_data.s = <<"1">> THEN result = PyBool(TRUE)
        ELSE IF arg_data.s = <<"0">> THEN result = PyBool(FALSE)
        ELSE result = PyInt(Base10(arg_data.s))

C4_Witness ==
    /\ Returned
    /\ arg_data = PyStr(<<"2","1","0">>)
    /\ result = PyInt(210)

\* the path rule as the specification words it
IsPathShaped(s) ==
    \/ /\ \/ startswith(s, <<"/">>)
          \/ startswith(s, <<"~">>)
          \/ startswith(s, <<".", "/">>)
       /\ ~Contains(s, <<":">>)
    \/ s = <<".">>

\* C5: a string without ":" and "@" that starts with "/", "~" or "./", and
\* the string ".", parses as the Path of the literal input.
C5_PathShapedIsPath ==
    (Returned /\ arg_data # None /\ IsPathShaped(arg_data.s)
       /\ ~Contains(arg_data.s, <<"@">>)) =>
        result = Path(arg_data.s)

\* C6: a string that is no boolean literal and contains "://" or "@" parses
\* as a URL, whatever the path, address and integer rules say of it.
C6_UrlShapedIsUrl ==
    (Returned /\ arg_data # None /\ ~IsBooleanLiteral(arg_data.s)
       /\ (Contains(arg_data.s, <<":", "/", "/">>) \/ Contains(arg_data.s, <<"@">>))) =>
        result.tag = "URL"

\* C7: a non-empty string that matches none of the boolean, URL, path,
\* address and integer rules is returned as the String it is, unmodified.
C7_FallbackIsString ==
    (Returned /\ arg_data # None /\ Len(arg_data.s) > 0
       /\ ~IsBooleanLiteral(arg_data.s)
       /\ ~Contains(arg_data.s, <<":", "/", "/">>)
       /\ ~Contains(arg_data.s, <<"@">>)
       /\ ~IsPathShaped(arg_data.s)
       /\ IsRaise(ip_address(arg_data.s))
       /\ ~IsAsciiDigits(arg_data.s)) =>
        result = arg_data

---------------------------------------------------------------------------
(* Env.as_int(key, value) *)

_parse_as_int == <<<<"G","I","T","H","U","B","_","R","U","N","_","A","T","T","E","M","P","T">>,
                   <<"G","I","T","H","U","B","_","R","U","N","_","I","D">>,
                   <<"G","I","T","H","U","B","_","R","U","N","_","N","U","M","B","E","R">>>>

_parse_as_int_suffix == <<<<"_","G","I","D">>, <<"_","J","O","B","S">>, <<"_","P","O","R","T">>, <<"_","U","I","D">>>>

as_int(k, value) ==
    LET convert ==
            /\ Len(value) > 0
            /\ \/ k \in Range(_parse_as_int)
               \/ \E i \in DOMAIN _parse_as_int_suffix :
                      endswith(k, _parse_as_int_suffix[i])
    IN IF convert /\ isnumeric(value) THEN int(value) ELSE parse_str(PyStr(value))

\* variable names: the allow-listed ones, names with each suffix, and names
\* that only resemble them
Keys == {
    <<"G","I","T","H","U","B","_","R","U","N","_","A","T","T","E","M","P","T">>,
    <<"G","I","T","H","U","B","_","R","U","N","_","I","D">>,
    <<"G","I","T","H","U","B","_","R","U","N","_","N","U","M","B","E","R">>,
    <<"S","U","D","O","_","G","I","D">>,
    <<"M","A","K","E","_","J","O","B","S">>,
    <<"P","Y","C","H","A","R","M","_","D","I","S","P","L","A","Y","_","P","O","R","T">>,
    <<"S","U","D","O","_","U","I","D">>,
    <<"_","U","I","D">>,
    <<"H","O","M","E">>,
    <<"P","O","R","T">>,
    <<"U","I","D","_","M","A","X">>,
    <<"G","I","T","H","U","B","_","R","U","N","_","I","D","S">>,
    <<"x","_","p","o","r","t">> }

Values == Strings(MaxValLen) \cup {<<"8","0","8","0">>, <<"a","b","c">>}

InitAsInt ==
    /\ pc = "start"
    /\ arg_key \in Keys
    /\ arg_data \in {PyStr(v) : v \in Values}
    /\ result = None
    /\ NoEnv
    /\ NoRun

AsInt ==
    /\ pc = "start"
    /\ result' = as_int(arg_key, arg_data.s)
    /\ pc' = "done"
    /\ UNCHANGED <<arg_data, arg_key, environ, captured, parsed, fields, depth, mutations>>
    /\ UNCHANGED <<live, run, child, other_steps, cli>>

NextAsInt == AsInt

SpecAsInt == InitAsInt /\ [][NextAsInt]_vars

\* the key is one the claim names: allow-listed, or with one of the suffixes
IsIntegerKey(k) ==
    \/ k \in {<<"G","I","T","H","U","B","_","R","U","N","_","A","T","T","E","M","P","T">>,
            <<"G","I","T","H","U","B","_","R","U","N","_","I","D">>,
            <<"G","I","T","H","U","B","_","R","U","N","_","N","U","M","B","E","R">>}
    \/ \E suffix \in {<<"_","G","I","D">>, <<"_","J","O","B","S">>, <<"_","P","O","R","T">>, <<"_","U","I","D">>} : endswith(k, suffix)

\* C8: for an allow-listed or suffixed key and a value of ASCII digits the
\* result is the Integer of the value, also for "0" and "1"; for any other
\* key or value it is what parse_str returns, and nothing is raised.
C8_AsIntOrParseStr ==
    Returned =>
        IF IsIntegerKey(arg_key) /\ IsAsciiDigits(arg_data.s)
        THEN result = PyInt(Base10(arg_data.s))
        ELSE result = parse_str(arg_data) /\ ~IsRaise(result)

---------------------------------------------------------------------------
(* Env: the snapshot of os.environ taken by the constructor *)

\* variable names of the modelled process environment; HOME and
\* GITHUB_RUN_ID are declared fields of Env, FOO is not
EnvNames == {<<"H","O","M","E">>,
             <<"G","I","T","H","U","B","_","R","U","N","_","I","D">>,
             <<"F","O","O">>}

DeclaredFields == {<<"H","O","M","E">>,
                   <<"G","I","T","H","U","B","_","R","U","N","_","I","D">>}

\* raw values a variable may hold
EnvValues == {<<>>, <<"1">>, <<"/","r","o","o","t">>}

Environments == UNION {[names -> EnvValues] : names \in SUBSET EnvNames}

\* Env.__post_init__: the mapping merged into the instance __dict__
post_init(env, parse) ==
    IF parse THEN [k \in DOMAIN env |-> as_int(k, env[k])]
    ELSE [k \in DOMAIN env |-> PyStr(env[k])]

\* the instance once __post_init__ has updated the __dict__ holding the
\* field defaults
EnvObject(defaults, env, parse) ==
    [tag |-> "Env",
     dict |-> [k \in DOMAIN defaults \cup DOMAIN env |->
                  IF k \in DOMAIN env THEN post_init(env, parse)[k]
                  ELSE defaults[k]]]

\* Env.__contains__ and Env.__getattr__ / Env.__getitem__ on the __dict__
Env_contains(dict, item) == item \in DOMAIN dict
Env_getattr(dict, name) == IF Env_contains(dict, name) THEN dict[name] ELSE None

InitEnv ==
    /\ pc = "start"
    /\ arg_data = None
    /\ arg_key = <<>>
    /\ result = None
    /\ environ \in Environments
    /\ captured = <<>>
    /\ parsed = TRUE
    /\ fields = <<>>
    /\ depth = 0
    /\ mutations = 0
    /\ NoRun

\* Env(parsed): the generated __init__ assigns every field its default and
\* then evaluates self.__post_init__, an attribute access on the instance,
\* which enters Env.__getattribute__(self, "__post_init__")
EnvInit ==
    /\ pc = "start"
    /\ \E parse \in BOOLEAN : parsed' = parse
    /\ captured' = environ
    /\ fields' = [f \in DeclaredFields |-> None]
    /\ depth' = 1
    /\ pc' = "getattribute"
    /\ UNCHANGED <<arg_data, arg_key, result, environ, mutations>>
    /\ UNCHANGED <<live, run, child, other_steps, cli>>

\* Env.__getattribute__(self, name): hasattr(self, name) is getattr(self,
\* name), which enters Env.__getattribute__(self, name) again
GetAttribute ==
    /\ pc = "getattribute"
    /\ depth < RecursionLimit
    /\ depth' = depth + 1
    /\ UNCHANGED <<pc, arg_data, arg_key, result, environ, captured, parsed,
                   fields, mutations>>
    /\ UNCHANGED <<live, run, child, other_steps, cli>>

\* the interpreter refuses the next frame: RecursionError, which hasattr
\* does not catch (it catches AttributeError), leaves every frame and the
\* constructor call
RaiseRecursionError ==
    /\ pc = "getattribute"
    /\ depth = RecursionLimit
    /\ result' = Raise("RecursionError")
    /\ depth' = 0
    /\ pc' = "done"
    /\ UNCHANGED <<arg_data, arg_key, environ, captured, parsed, fields, mutations>>
    /\ UNCHANGED <<live, run, child, other_steps, cli>>

\* os.environ[name] = value, by the code that runs after the call Env(...)
Putenv ==
    /\ pc = "done"
    /\ mutations < MaxMutations
    /\ \E name \in EnvNames, value \in EnvValues :
           environ' = [k \in DOMAIN environ \cup {name} |->
                          IF k = name THEN value ELSE environ[k]]
    /\ mutations' = mutations + 1
    /\ UNCHANGED <<pc, arg_data, arg_key, result, captured, parsed, fields, depth>>
    /\ UNCHANGED <<live, run, child, other_steps, cli>>

\* del os.environ[name]
Unsetenv ==
    /\ pc = "done"
    /\ mutations < MaxMutations
    /\ \E name \in DOMAIN environ :
           environ' = [k \in DOMAIN environ \ {name} |-> environ[k]]
    /\ mutations' = mutations + 1
    /\ UNCHANGED <<pc, arg_data, arg_key, result, captured, parsed, fields, depth>>
    /\ UNCHANGED <<live, run, child, other_steps, cli>>

\* parse_env(name): os.environ.get(name), parsed by Env.as_int when it is
\* not empty, returned as it is (None or "") otherwise
parse_env(env, name) ==
    IF name \in DOMAIN env /\ Len(env[name]) > 0 THEN as_int(name, env[name])
    ELSE IF name \in DOMAIN env THEN PyStr(env[name])
    ELSE None

\* a call parse_env(name), before the call Env(...) or after it; `moment`
\* is the number of environment changes since the constructor's capture
ParseEnv ==
    /\ pc \in {"start", "done"}
    /\ live = None
    /\ \E name \in EnvNames :
           live' = [name |-> name, value |-> parse_env(environ, name),
                    moment |-> mutations]
    /\ UNCHANGED <<pc, arg_data, arg_key, result, environ, captured, parsed,
                   fields, depth, mutations>>
    /\ UNCHANGED <<run, child, other_steps, cli>>

NextEnv ==
    \/ EnvInit \/ GetAttribute \/ RaiseRecursionError \/ Putenv \/ Unsetenv
    \/ ParseEnv

SpecEnv == InitEnv /\ [][NextEnv]_vars

\* C9: constructing an Env does not fail, and a lookup on it, by attribute
\* or by item, returns None for a name absent from the environment and the
\* stored value for a name present in it.
C9_LookupReturnsValueOrNone ==
    Returned =>
        /\ result.tag = "Env"
        /\ \A name \in EnvNames :
               Env_getattr(result.dict, name) =
                   IF name \in DOMAIN captured
                   THEN post_init(captured, parsed)[name]
                   ELSE None

\* C10: once Env(...) has returned, whatever was set, changed or deleted in
\* the process environment since the call, the Env holds the values
\* captured at construction, for parsed = True and parsed = False.
C10_SnapshotKeepsCapturedValues ==
    (Returned /\ mutations > 0) =>
        result = EnvObject(fields, captured, parsed)

---------------------------------------------------------------------------
(* cmd, aiocmd and CmdError                                                *)
(*                                                                         *)
(* The child writes bytes: "a" is an ASCII byte, "CR" a carriage return,   *)
(* "0xFF" a byte that no UTF-8 text contains.  The locale encoding of      *)
(* text=True is UTF-8.  Text has the characters "a", "CR" and "LF".        *)

\* bytes.decode(): strict UTF-8
decode(b) ==
    IF \E i \in 1..Len(b) : b[i] = "0xFF" THEN Raise("UnicodeDecodeError")
    ELSE PyStr(b)

\* universal newlines of text mode: "\r\n" and a lone "\r" become "\n"
RECURSIVE translate_newlines(_)
translate_newlines(s) ==
    IF Len(s) = 0 THEN <<>>
    ELSE IF s[1] = "CR"
    THEN <<"LF">> \o translate_newlines(
             IF Len(s) > 1 /\ s[2] = "LF" THEN SubSeq(s, 3, Len(s))
             ELSE SubSeq(s, 2, Len(s)))
    ELSE <<s[1]>> \o translate_newlines(SubSeq(s, 2, Len(s)))

\* a stream captured with text=True
text(b) ==
    IF IsRaise(decode(b)) THEN decode(b)
    ELSE PyStr(translate_newlines(decode(b).s))

CompletedProcess(args, returncode, stdout, stderr) ==
    [tag |-> "CompletedProcess", args |-> args, returncode |-> returncode,
     stdout |-> stdout, stderr |-> stderr]

\* subprocess.run(args, capture_output=True, text=True) once the child has
\* exited with `returncode` and the bytes `out`, `err` are read
subprocess_run(args, returncode, out, err) ==
    IF IsRaise(text(out)) THEN text(out)
    ELSE IF IsRaise(text(err)) THEN text(err)
    ELSE CompletedProcess(args, returncode, text(out), text(err))

\* aiocmd: the CompletedProcess built from proc.communicate()
aiocmd_completed(args, returncode, out, err) ==
    LET stdout == IF Len(out) > 0 THEN decode(out) ELSE None
        stderr == IF Len(err) > 0 THEN decode(err) ELSE None
    IN IF IsRaise(stdout) THEN stdout
       ELSE IF IsRaise(stderr) THEN stderr
       ELSE CompletedProcess(args, returncode, stdout, stderr)

\* CmdError.__init__: CalledProcessError(returncode, cmd, output, stderr);
\* the property stdout of the error is its output
CmdError(process) ==
    [tag |-> "Raise", exc |-> "CmdError", returncode |-> process.returncode,
     cmd |-> process.args, output |-> process.stdout, stderr |-> process.stderr]

\* CalledProcessError.__str__: the command and its exit status, or the
\* signal that killed it
CalledProcessError_str(e) ==
    IF e.returncode < 0
    THEN [text |-> "Command died with signal", cmd |-> e.cmd, n |-> -e.returncode]
    ELSE [text |-> "Command returned non-zero exit status", cmd |-> e.cmd,
          n |-> e.returncode]

\* CmdError.__str__: the base description, then the characters added to it
CmdError_str(e) ==
    [base |-> CalledProcessError_str(e),
     added |-> (IF e.stderr # None THEN <<"LF">> \o e.stderr.s ELSE <<>>)
               \o (IF e.output # None THEN <<"LF">> \o e.output.s ELSE <<>>)]

\* `if completed.returncode != 0: raise CmdError(completed)`, else return
raise_or_return(completed) ==
    IF completed.returncode # 0 THEN CmdError(completed) ELSE completed

\* the whole call, given what the child does
cmd(args, returncode, out, err) ==
    LET completed == subprocess_run(args, returncode, out, err)
    IN IF IsRaise(completed) THEN completed ELSE raise_or_return(completed)

aiocmd(args, returncode, out, err) ==
    LET completed == aiocmd_completed(args, returncode, out, err)
    IN IF IsRaise(completed) THEN completed ELSE raise_or_return(completed)

\* a reader that returns what has arrived so far, without waiting for the
\* end of the streams and the exit of the child
communicate_done_without_waiting(c, r) ==
    /\ Len(r.out) = c.wrote_out
    /\ Len(r.err) = c.wrote_err

\* proc.communicate() / subprocess.run return once both pipes are at end of
\* file, every byte read, and the child has been waited for
communicate_done(c, r) ==
    /\ c.state = "exited"
    /\ r.out = c.stdout
    /\ r.err = c.stderr

Bytes == {"a", "CR", "0xFF"}
ByteStrings == UNION {[1..k -> Bytes] : k \in 0..MaxOut}
ReturnCodes == {0, 1, -9}
Argv == <<"git", "status">>

InitRun ==
    /\ pc = "idle"
    /\ arg_data = None
    /\ arg_key = <<>>
    /\ result = None
    /\ NoEnv
    /\ live = None
    /\ cli = <<>>
    /\ other_steps = 0
    /\ \E mode \in {"cmd", "aiocmd"} :
           run = [mode |-> mode, pc |-> "start", args |-> Argv, out |-> <<>>,
                  err |-> <<>>, completed |-> None, result |-> None,
                  message |-> None]
    /\ \E returncode \in ReturnCodes, out \in ByteStrings, err \in ByteStrings :
           child = [state |-> "none", returncode |-> returncode, stdout |-> out,
                    stderr |-> err, wrote_out |-> 0, wrote_err |-> 0]

otherVars == <<pc, arg_data, arg_key, result, environ, captured, parsed, fields,
               depth, mutations, live, cli>>

\* the child is started with both streams piped and the caller waits for it
Spawn ==
    /\ run.pc = "start"
    /\ run' = [run EXCEPT !.pc = "communicate"]
    /\ child' = [child EXCEPT !.state = "running"]
    /\ UNCHANGED <<other_steps, otherVars>>

ChildWriteStdout ==
    /\ child.state = "running"
    /\ child.wrote_out < Len(child.stdout)
    /\ child' = [child EXCEPT !.wrote_out = @ + 1]
    /\ UNCHANGED <<run, other_steps, otherVars>>

ChildWriteStderr ==
    /\ child.state = "running"
    /\ child.wrote_err < Len(child.stderr)
    /\ child' = [child EXCEPT !.wrote_err = @ + 1]
    /\ UNCHANGED <<run, other_steps, otherVars>>

\* the child exits; its ends of the pipes close
ChildExit ==
    /\ child.state = "running"
    /\ child.wrote_out = Len(child.stdout)
    /\ child.wrote_err = Len(child.stderr)
    /\ child' = [child EXCEPT !.state = "exited"]
    /\ UNCHANGED <<run, other_steps, otherVars>>

\* the caller reads what the pipe holds
ReadStdout ==
    /\ run.pc = "communicate"
    /\ Len(run.out) < child.wrote_out
    /\ run' = [run EXCEPT !.out = SubSeq(child.stdout, 1, child.wrote_out)]
    /\ UNCHANGED <<child, other_steps, otherVars>>

ReadStderr ==
    /\ run.pc = "communicate"
    /\ Len(run.err) < child.wrote_err
    /\ run' = [run EXCEPT !.err = SubSeq(child.stderr, 1, child.wrote_err)]
    /\ UNCHANGED <<child, other_steps, otherVars>>

\* communicate returns and the CompletedProcess is built; a stream that
\* does not decode raises out of the call
Complete ==
    /\ run.pc = "communicate"
    /\ communicate_done(child, run)
    /\ LET completed ==
               IF run.mode = "cmd"
               THEN subprocess_run(run.args, child.returncode, run.out, run.err)
               ELSE aiocmd_completed(run.args, child.returncode, run.out, run.err)
       IN run' = IF IsRaise(completed)
                 THEN [run EXCEPT !.pc = "done", !.result = completed]
                 ELSE [run EXCEPT !.pc = "completed", !.completed = completed]
    /\ UNCHANGED <<child, other_steps, otherVars>>

\* the return code decides between raise CmdError and return
RaiseOrReturn ==
    /\ run.pc = "completed"
    /\ run' = [run EXCEPT !.pc = "done", !.result = raise_or_return(run.completed)]
    /\ UNCHANGED <<child, other_steps, otherVars>>

\* str(error) on the CmdError raised
Str ==
    /\ run.pc = "done"
    /\ run.result.tag = "Raise" /\ run.result.exc = "CmdError"
    /\ run.message = None
    /\ run' = [run EXCEPT !.message = CmdError_str(run.result)]
    /\ UNCHANGED <<child, other_steps, otherVars>>

\* another task of the event loop runs while aiocmd awaits; cmd blocks the
\* thread, so nothing else runs during it
OtherTask ==
    /\ run.mode = "aiocmd"
    /\ run.pc = "communicate"
    /\ other_steps < MaxOtherSteps
    /\ other_steps' = other_steps + 1
    /\ UNCHANGED <<run, child, otherVars>>

NextRun ==
    \/ Spawn \/ ChildWriteStdout \/ ChildWriteStderr \/ ChildExit
    \/ ReadStdout \/ ReadStderr \/ Complete \/ RaiseOrReturn \/ Str \/ OtherTask

SpecRun == InitRun /\ [][NextRun]_vars

\* the call has returned or raised
Finished == run # <<>> /\ run.pc = "done"

IsCmdError(r) == r.tag = "Raise" /\ r.exc = "CmdError"

\* C11: for cmd and aiocmd, a child that exits with code 0 makes the call
\* return a CompletedProcess with returncode 0 and raise nothing; a child
\* that exits with any other code makes the call raise CmdError whose
\* returncode, invoked arguments, stdout and stderr are those of the
\* completed process.
C11_ExitCodeDecidesOutcome ==
    Finished =>
        IF child.returncode = 0
        THEN /\ run.result.tag = "CompletedProcess"
             /\ run.result.returncode = 0
        ELSE /\ IsCmdError(run.result)
             /\ run.result.returncode = child.returncode
             /\ run.result.returncode = run.completed.returncode
             /\ run.result.cmd = run.completed.args
             /\ run.result.output = run.completed.stdout
             /\ run.result.stderr = run.completed.stderr

\* the line a stream with output adds to the message, none without output
LineFor(bytes, captured_text) ==
    IF Len(bytes) > 0 THEN <<"LF">> \o captured_text.s ELSE <<>>

\* C12: the rendered message of a CmdError is the base description with the
\* exit code, then the captured stderr on a line of its own only if the
\* child wrote to stderr, then the captured stdout on a line of its own only
\* if the child wrote to stdout; a stream without output adds no line.
C12_MessageHasLinesOnlyForOutput ==
    (Finished /\ run.message # None) =>
        /\ run.message.base = CalledProcessError_str(run.result)
        /\ run.message.added = LineFor(child.stderr, run.result.stderr)
                               \o LineFor(child.stdout, run.result.output)

\* how a call ended
Ending(r) ==
    IF r.tag = "CompletedProcess" THEN "returned" ELSE r.exc

ExitCode(r) == r.returncode

CapturedStdout(r) ==
    IF r.tag = "CompletedProcess" THEN r.stdout ELSE r.output

CapturedStderr(r) == r.stderr

\* what the other of the two functions produces for the same child outcome
Counterpart ==
    IF run.mode = "cmd"
    THEN aiocmd(run.args, child.returncode, child.stdout, child.stderr)
    ELSE cmd(run.args, child.returncode, child.stdout, child.stderr)

\* C13: cmd and aiocmd share one contract: for the same child outcome (exit
\* code, stdout bytes, stderr bytes, empty output included) both end the same
\* way, with the same exit code and the same captured stdout and stderr, each
\* captured as text.
C13_CmdAndAiocmdAgree ==
    Finished =>
        /\ Ending(run.result) = Ending(Counterpart)
        /\ Ending(run.result) \in {"returned", "CmdError"} =>
               /\ ExitCode(run.result) = ExitCode(Counterpart)
               /\ CapturedStdout(run.result) = CapturedStdout(Counterpart)
               /\ CapturedStderr(run.result) = CapturedStderr(Counterpart)
               /\ CapturedStdout(run.result).tag = "String"
               /\ CapturedStderr(run.result).tag = "String"

\* C15: in aiocmd the result or failure is produced only after the child has
\* exited and both streams are read to their end, in every interleaving with
\* the steps of other tasks: nothing is returned or raised while the child
\* runs.
C15_ResultOnlyAfterChildExited ==
    (run # <<>> /\ run.mode = "aiocmd"
        /\ (run.completed # None \/ run.result # None)) =>
        /\ child.state = "exited"
        /\ run.out = child.stdout
        /\ run.err = child.stderr

\* aiocmd raised CmdError for a child that wrote to both streams, and
\* another task took a step while the call was suspended
C15_Witness ==
    /\ run # <<>>
    /\ run.mode = "aiocmd"
    /\ run.pc = "done"
    /\ IsCmdError(run.result)
    /\ Len(child.stdout) > 0
    /\ Len(child.stderr) > 0
    /\ other_steps > 0

---------------------------------------------------------------------------
(* the command line: version(), suppress() and the two commands            *)

\* the directory name of the package
__project__ == "mreleaser"

Packages == {"mreleaser", "pip", "semver"}
VersionStrings == {<<"0", ".", "1">>, <<"1", ".", "0">>}

\* the installed distributions: package name -> version
Registries == UNION {[installed -> VersionStrings] : installed \in SUBSET Packages}

\* importlib.metadata.version(package)
metadata_version(registry, package) ==
    IF package \in DOMAIN registry THEN PyStr(registry[package])
    ELSE Raise("PackageNotFoundError")

\* suppress(func, *args, exception=...): the value of the call; when the
\* call raises one of `exception` the with block is left and the function
\* ends without a return statement
suppress(outcome, exception) ==
    IF IsRaise(outcome) /\ outcome.exc \in exception THEN None ELSE outcome

version(registry, package) ==
    suppress(metadata_version(registry, package), {"PackageNotFoundError"})

\* str(value) as print applies it
str(value) ==
    IF value = None THEN <<"N", "o", "n", "e">> ELSE value.s

\* print(value) on a standard output holding `stdout`
print(stdout, value) == stdout \o str(value) \o <<"LF">>

InitCli ==
    /\ pc = "idle"
    /\ arg_data = None
    /\ arg_key = <<>>
    /\ result = None
    /\ NoEnv
    /\ live = None
    /\ run = <<>>
    /\ child = <<>>
    /\ other_steps = 0
    /\ \E command \in {"--version", "package"}, registry \in Registries :
           cli = [pc |-> "start", command |-> command, registry |-> registry,
                  stdout |-> <<>>, exit_code |-> None]

notCli == <<pc, arg_data, arg_key, result, environ, captured, parsed, fields,
            depth, mutations, live, run, child, other_steps>>

\* the command --version
_version ==
    /\ cli.pc = "start"
    /\ cli.command = "--version"
    /\ cli' = [cli EXCEPT !.pc = "returned",
                          !.stdout = print(@, version(cli.registry, __project__))]
    /\ UNCHANGED notCli

\* the command package; its paths are not used
_package ==
    /\ cli.pc = "start"
    /\ cli.command = "package"
    /\ cli' = [cli EXCEPT !.pc = "returned",
                          !.stdout = print(@, version(cli.registry, __project__))]
    /\ UNCHANGED notCli

\* app() ends the process once the command has returned
Exit ==
    /\ cli.pc = "returned"
    /\ cli' = [cli EXCEPT !.pc = "exited", !.exit_code = 0]
    /\ UNCHANGED notCli

NextCli == _version \/ _package \/ Exit

SpecCli == InitCli /\ [][NextCli]_vars

\* only spaces and line ends
IsBlank(s) == \A i \in 1..Len(s) : s[i] \in {" ", "LF"}

\* C14: the command --version, when the metadata lookup fails because the
\* package is not installed, prints blank standard output and exits with
\* code 0; the failure of the lookup does not surface.
C14_VersionBlankWhenNotInstalled ==
    (cli # <<>> /\ cli.pc = "exited" /\ cli.command = "--version"
        /\ __project__ \notin DOMAIN cli.registry) =>
        /\ IsBlank(cli.stdout)
        /\ cli.exit_code = 0

\* C16: a live read agrees with a fresh snapshot: for every environment and
\* every name, parse_env(name) returns what a lookup of name returns on an
\* Env constructed at that moment, also when the variable is unset (both
\* None) and when it is the empty string.
C16_LiveReadAgreesWithSnapshot ==
    (Returned /\ parsed /\ live # None /\ live.moment = 0) =>
        /\ result.tag = "Env"
        /\ live.value = Env_getattr(result.dict, live.name)

=============================================================================
